---- MODULE Spec2Model ----
(***************************************************************************)
(* State-machine model of the Sudoku solving engine of src/src/sudoku.rs   *)
(* (Field, Board) and of board_from_string's clue mapping in               *)
(* src/src/main.rs.  The 9x9 geometry is the program's; what is bounded is *)
(* the set of clue sequences and arguments the caller hands to the API and *)
(* the number of calls of each kind.                                       *)
(***************************************************************************)
EXTENDS Integers, Sequences, FiniteSets, TLC

VARIABLES
    data,       \* Board.data: 0..80 -> Field
    changed,    \* Board.changed
    steps,      \* Board.steps: Option<Vec<(u8, u8)>>
    pc,         \* position of the caller / of solve()'s loop
    failure,    \* the panic that ended the program, "none" while it runs
    input,      \* fill(): the iterator's items
    fillPos,    \* fill(): number of items the iterator has consumed
    pending,    \* solve_sole_option(): the collected (idx, val), not yet applied
    unit,       \* solve(): the unit being processed, 0..26
    list,       \* solve_by_neighbourhood(): list, one Vec of indices per digit
    num,        \* solve_by_neighbourhood(): position of the loop over list, 0..8
    calls,      \* the number of API calls made so far, per operation
    call,       \* the latest API call: operation, arguments, the call before it
    pre,        \* the board as the latest API call found it
    assigned,   \* (idx, val) when the latest step was a set_idx, else <<>>
    ret,        \* what the latest call of neighbours returned
    sweep       \* solve(): the sweeps the latest call began (counted up to
                \* MaxSweeps) and the cells at the top of the latest sweep

vars == <<data, changed, steps, pc, failure, input, fillPos, pending, unit,
          list, num, calls, call, pre, assigned, ret, sweep>>

board == <<data, changed, steps>>
local == <<input, fillPos, pending, unit, list, num>>

----------------------------------------------------------------------------
(* Bounds of the exploration *)

MaxSets == 1
MaxSolves == 2
\* The sweeps of one call of solve() are counted up to this number.
MaxSweeps == 2

----------------------------------------------------------------------------
(* Clue sequences handed to fill(): Option<u8> items, None or Some(0..255) *)

None == -1

Hard ==
       <<9, 2, None, None, None, None, None, None, None>>
    \o <<5, None, None, 8, 7, None, None, None, None>>
    \o <<None, 3, 8, None, 9, 1, None, None, None>>
    \o <<None, 5, 2, 9, 3, None, 1, 6, None>>
    \o <<None, 9, None, None, None, None, None, 3, None>>
    \o <<None, 7, 3, None, 6, 4, 9, 8, None>>
    \o <<None, None, None, 4, 1, None, 2, 5, None>>
    \o <<None, None, None, None, 5, 3, None, None, 1>>
    \o <<None, None, None, None, None, None, None, 7, 3>>

Normal ==
       <<None, None, 4, None, None, 5, None, 2, None>>
    \o <<None, 5, 2, None, 3, 6, 8, 4, None>>
    \o <<None, 1, 6, None, 8, 2, None, None, None>>
    \o <<2, None, None, None, 5, None, 4, None, None>>
    \o <<None, None, None, None, 1, None, 7, 3, None>>
    \o <<6, 4, 1, None, None, None, None, None, 8>>
    \o <<None, None, None, 8, None, None, None, None, 7>>
    \o <<1, 2, None, None, None, None, None, None, 4>>
    \o <<7, None, None, None, None, None, 1, None, 9>>

ByNeighbourhood ==
       <<None, None, 8, None, None, None, None, None, None>>
    \o <<9, 1, 4, 5, 3, 6, None, None, None>>
    \o <<6, 5, 7, None, None, 8, None, None, None>>
    \o <<None, None, None, 2, None, None, None, None, None>>
    \o <<None, None, None, None, None, None, None, None, None>>
    \o <<None, None, None, None, None, None, None, None, None>>

TwoInOne ==
       <<None, None, None, None, None, None, None, None, None>>
    \o <<None, None, None, 1, None, None, None, 2, None>>
    \o <<None, None, None, None, 2, None, 1, None, None>>
    \o <<None, 1, None, None, None, None, None, None, None>>
    \o <<None, 2, None, None, None, None, None, None, None>>
    \o <<None, None, None, None, None, None, None, None, None>>
    \o <<None, None, 1, None, None, None, None, None, None>>
    \o <<None, None, 2, None, None, None, None, None, None>>
    \o <<None, None, None, None, None, None, None, None, None>>

Pointing ==
       <<None, None, None, None, 4, None, None, None, None>>
    \o <<None, None, None, None, None, None, None, None, 6>>
    \o <<None, None, None, None, None, None, None, None, 5>>
    \o <<None, None, None, None, None, None, None, None, None>>
    \o <<None, None, None, None, None, None, None, None, None>>
    \o <<None, 7, 3, None, None, None, None, None, 2>>
    \o <<None, None, None, 4, None, None, None, None, None>>
    \o <<None, None, None, None, None, None, None, 4, None>>
    \o <<4, None, None, None, None, None, None, None, None>>

HardSolution ==
       <<9, 2, 6, 3, 4, 5, 7, 1, 8>>
    \o <<5, 4, 1, 8, 7, 2, 3, 9, 6>>
    \o <<7, 3, 8, 6, 9, 1, 4, 2, 5>>
    \o <<8, 5, 2, 9, 3, 7, 1, 6, 4>>
    \o <<6, 9, 4, 1, 2, 8, 5, 3, 7>>
    \o <<1, 7, 3, 5, 6, 4, 9, 8, 2>>
    \o <<3, 8, 7, 4, 1, 6, 2, 5, 9>>
    \o <<2, 6, 9, 7, 5, 3, 8, 4, 1>>
    \o <<4, 1, 5, 2, 8, 9, 6, 7, 3>>

NormalSolution ==
       <<8, 7, 4, 1, 9, 5, 6, 2, 3>>
    \o <<9, 5, 2, 7, 3, 6, 8, 4, 1>>
    \o <<3, 1, 6, 4, 8, 2, 9, 7, 5>>
    \o <<2, 3, 7, 9, 5, 8, 4, 1, 6>>
    \o <<5, 8, 9, 6, 1, 4, 7, 3, 2>>
    \o <<6, 4, 1, 3, 2, 7, 5, 9, 8>>
    \o <<4, 9, 3, 8, 6, 1, 2, 5, 7>>
    \o <<1, 2, 8, 5, 7, 9, 3, 6, 4>>
    \o <<7, 6, 5, 2, 4, 3, 1, 8, 9>>

\* A complete grid that agrees with the clues of ByNeighbourhood.
ByNeighbourhoodSolution ==
       <<2, 3, 8, 1, 4, 7, 5, 6, 9>>
    \o <<9, 1, 4, 5, 3, 6, 2, 7, 8>>
    \o <<6, 5, 7, 9, 2, 8, 1, 3, 4>>
    \o <<1, 4, 3, 2, 5, 9, 6, 8, 7>>
    \o <<5, 2, 6, 7, 8, 3, 4, 9, 1>>
    \o <<7, 8, 9, 4, 6, 1, 3, 2, 5>>
    \o <<3, 6, 1, 8, 7, 4, 9, 5, 2>>
    \o <<4, 7, 2, 3, 9, 5, 8, 1, 6>>
    \o <<8, 9, 5, 6, 1, 2, 7, 4, 3>>

\* A complete grid that agrees with the clues of Pointing.
PointingSolution ==
       <<1, 2, 5, 3, 4, 6, 7, 8, 9>>
    \o <<3, 4, 7, 5, 8, 9, 1, 2, 6>>
    \o <<6, 8, 9, 1, 2, 7, 4, 3, 5>>
    \o <<2, 1, 4, 6, 3, 5, 8, 9, 7>>
    \o <<5, 6, 8, 7, 9, 2, 3, 1, 4>>
    \o <<9, 7, 3, 8, 1, 4, 5, 6, 2>>
    \o <<7, 3, 2, 4, 6, 1, 9, 5, 8>>
    \o <<8, 5, 6, 9, 7, 3, 2, 4, 1>>
    \o <<4, 9, 1, 2, 5, 8, 6, 7, 3>>

\* The full grid HardSolution followed by two more items, the 82nd invalid.
TooLong == HardSolution \o <<0, 7>>

\* Two equal digits in one row.
Duplicate == <<5, 5>>

\* Present values outside 1..9.
WithZero == <<3, None, 0, 7>>
WithTen == <<None, 10, 4>>

\* A full grid that is no Sudoku solution: 81 times the digit 5.
FullOfFives == [k \in 1..81 |-> 5]

Inputs == {Hard, Normal, ByNeighbourhood, TwoInOne, Pointing,
           TooLong, FullOfFives, Duplicate, WithZero, WithTen}

\* Arguments handed to Board::set.
SetPositions == {<<0, 0>>, <<0, 9>>, <<9, 0>>}
SetValues == {0, 4, 10}

----------------------------------------------------------------------------
(* Field *)

Value(v) == [tag |-> "Value", val |-> v]
Options(opts) == [tag |-> "Options", opts |-> opts]

with_all_options == Options(<<1, 2, 3, 4, 5, 6, 7, 8, 9>>)

\* The assertion with its lower bound off by one.
valid_value_from_zero(val) == 0 <= val /\ val <= 9

\* The assertion of Field::set.
valid_value(val) == 1 <= val /\ val <= 9

\* Field::set past its assertion.
field_set(f, val) == Value(val)

\* remove_option without the test for the Options variant.
remove_option_untagged(f, val) ==
    Options(SelectSeq(IF f.tag = "Options" THEN f.opts ELSE <<>>,
                      LAMBDA x : x # val))

remove_option(f, val) ==
    IF f.tag = "Options"
    THEN Options(SelectSeq(f.opts, LAMBDA x : x # val))
    ELSE f

IsValue(f) == f.tag = "Value"
IsOptions(f) == f.tag = "Options"
Contains(seq, x) == \E k \in 1..Len(seq) : seq[k] = x
HasOption(f, v) == IsOptions(f) /\ Contains(f.opts, v)

----------------------------------------------------------------------------
(* Board *)

Cells == 9 * 9

new_data == [i \in 0..(Cells - 1) |-> with_all_options]

NoSteps == [on |-> FALSE, list |-> <<>>]
SomeSteps(l) == [on |-> TRUE, list |-> l]

\* neighbours without the cells of the square.
neighbours_without_square(pos) ==
    LET row == pos[1]
        col == pos[2]
    IN  SelectSeq([c \in 1..9 |-> <<row, c - 1>>], LAMBDA p : p[2] # col)
        \o SelectSeq([r \in 1..9 |-> <<r - 1, col>>], LAMBDA p : p[1] # row)

\* neighbours whose loop over the square does not skip the cell's own row.
neighbours_square_with_row(pos) ==
    LET row == pos[1]
        col == pos[2]
        square_base_row == 3 * (row \div 3)
        square_base_col == 3 * (col \div 3)
    IN  SelectSeq([c \in 1..9 |-> <<row, c - 1>>], LAMBDA p : p[2] # col)
        \o SelectSeq([r \in 1..9 |-> <<r - 1, col>>], LAMBDA p : p[1] # row)
        \o SelectSeq(
            [k \in 1..9 |-> <<square_base_row + ((k - 1) \div 3),
                              square_base_col + ((k - 1) % 3)>>],
            LAMBDA p : p[2] # col)

neighbours(pos) ==
    LET row == pos[1]
        col == pos[2]
        square_base_row == 3 * (row \div 3)
        square_base_col == 3 * (col \div 3)
        inRow == SelectSeq([c \in 1..9 |-> <<row, c - 1>>], LAMBDA p : p[2] # col)
        inCol == SelectSeq([r \in 1..9 |-> <<r - 1, col>>], LAMBDA p : p[1] # row)
        inSquare == SelectSeq(
            [k \in 1..9 |-> <<square_base_row + ((k - 1) \div 3),
                              square_base_col + ((k - 1) % 3)>>],
            LAMBDA p : p[1] # row /\ p[2] # col)
    IN  inRow \o inCol \o inSquare

RECURSIVE remove_from(_, _, _)
remove_from(d, positions, val) ==
    IF positions = <<>> THEN d
    ELSE LET p == Head(positions)
         IN  remove_from([d EXCEPT ![p[1] * 9 + p[2]] = remove_option(@, val)],
                         Tail(positions), val)

\* set_idx taking the neighbours of the transposed position.
set_idx_data_transposed(d, idx, val) ==
    remove_from([d EXCEPT ![idx] = field_set(@, val)],
                neighbours(<<idx % 9, idx \div 9>>), val)

\* The board's cells after set_idx(idx, val), for idx in range and val valid.
set_idx_data(d, idx, val) ==
    remove_from([d EXCEPT ![idx] = field_set(@, val)],
                neighbours(<<idx \div 9, idx % 9>>), val)

\* The step pushed with its two components swapped.
set_idx_steps_swapped(s, idx, val) ==
    IF s.on THEN SomeSteps(Append(s.list, <<val, idx>>)) ELSE s

set_idx_steps(s, idx, val) ==
    IF s.on THEN SomeSteps(Append(s.list, <<idx, val>>)) ELSE s

\* set_idx with the step pushed and the flag set before the cell is assigned.
set_idx_late_assert(idx, val) ==
    IF idx \notin DOMAIN data
    THEN /\ failure' = "IndexOutOfBounds"
         /\ assigned' = <<>>
         /\ UNCHANGED board
    ELSE IF ~valid_value(val)
    THEN /\ failure' = "InvalidValue"
         /\ assigned' = <<>>
         /\ steps' = set_idx_steps(steps, idx, val)
         /\ changed' = TRUE
         /\ UNCHANGED data
    ELSE /\ data' = set_idx_data(data, idx, val)
         /\ steps' = set_idx_steps(steps, idx, val)
         /\ changed' = TRUE
         /\ assigned' = <<idx, val>>
         /\ UNCHANGED failure

\* set_idx as a step: the index check of data[idx], the assertion of
\* Field::set, then the assignment, the removals, the step and the flag.
set_idx(idx, val) ==
    IF idx \notin DOMAIN data
    THEN /\ failure' = "IndexOutOfBounds"
         /\ assigned' = <<>>
         /\ UNCHANGED board
    ELSE IF ~valid_value(val)
    THEN /\ failure' = "InvalidValue"
         /\ assigned' = <<>>
         /\ UNCHANGED board
    ELSE /\ data' = set_idx_data(data, idx, val)
         /\ steps' = set_idx_steps(steps, idx, val)
         /\ changed' = TRUE
         /\ assigned' = <<idx, val>>
         /\ UNCHANGED failure

Count(op) == calls[op]

Snapshot == [data |-> data, changed |-> changed, steps |-> steps]

NoCall == [op |-> "new", pos |-> <<>>, val |-> None, after |-> "none"]

Init ==
    /\ data = new_data
    /\ changed = FALSE
    /\ steps = NoSteps
    /\ pc = "idle"
    /\ failure = "none"
    /\ input = <<>>
    /\ fillPos = 0
    /\ pending = <<>>
    /\ unit = 0
    /\ list = [n \in 1..9 |-> <<>>]
    /\ num = 0
    /\ calls = [op \in {"fill", "set", "solve"} |-> 0]
    /\ call = NoCall
    /\ pre = [data |-> new_data, changed |-> FALSE, steps |-> NoSteps]
    /\ assigned = <<>>
    /\ ret = <<>>
    /\ sweep = [n |-> 0, data |-> new_data]

Enter(op, pos, val) ==
    /\ pc = "idle"
    /\ calls' = IF op \in DOMAIN calls THEN [calls EXCEPT ![op] = @ + 1] ELSE calls
    /\ call' = [op |-> op, pos |-> pos, val |-> val, after |-> call.op]
    /\ pre' = Snapshot
    /\ UNCHANGED ret

----------------------------------------------------------------------------
(* record_steps, set *)

\* record_steps keeping the list when recording is already on.
record_steps_keep(enable) ==
    /\ Enter("record_steps", <<>>, IF enable THEN 1 ELSE 0)
    /\ steps' = IF enable THEN (IF steps.on THEN steps ELSE SomeSteps(<<>>))
                 ELSE NoSteps
    /\ assigned' = <<>>
    /\ UNCHANGED <<data, changed, pc, failure, local, sweep>>

record_steps(enable) ==
    /\ Enter("record_steps", <<>>, IF enable THEN 1 ELSE 0)
    /\ steps' = IF enable THEN SomeSteps(<<>>) ELSE NoSteps
    /\ assigned' = <<>>
    /\ UNCHANGED <<data, changed, pc, failure, local, sweep>>

set(pos, val) ==
    /\ Count("set") < MaxSets
    /\ Enter("set", pos, val)
    /\ set_idx(pos[1] * 9 + pos[2], val)
    /\ pc' = IF failure' # "none" THEN "panic" ELSE "idle"
    /\ UNCHANGED <<local, sweep>>

----------------------------------------------------------------------------
(* fill *)

\* The iterator without take(81).
Taken_all(s) == Len(s)

\* take(self.data.len()): the items the iterator can still yield.
Taken(s) == IF Len(s) < Cells THEN Len(s) ELSE Cells

\* filter_map: the next position at or after i that holds a present item, or
\* Taken(s) when there is none.
RECURSIVE NextPresent(_, _)
NextPresent(s, i) ==
    IF i >= Taken(s) THEN Taken(s)
    ELSE IF s[i + 1] # None THEN i
    ELSE NextPresent(s, i + 1)

\* fill is called on the board as Board::new() made it, as board_from_string
\* does; record_steps may come before it.
fill(s) ==
    /\ data = new_data
    /\ Count("fill") = 0
    /\ Enter("fill", <<>>, None)
    /\ input' = s
    /\ fillPos' = 0
    /\ pc' = "fill"
    /\ assigned' = <<>>
    /\ UNCHANGED <<board, failure, pending, unit, list, num, sweep>>

\* One turn of for_each: the next present item is assigned.
fill_item ==
    /\ pc = "fill"
    /\ NextPresent(input, fillPos) < Taken(input)
    /\ LET i == NextPresent(input, fillPos)
       IN  /\ set_idx(i, input[i + 1])
           /\ fillPos' = i + 1
    /\ pc' = IF failure' # "none" THEN "panic" ELSE "fill"
    /\ UNCHANGED <<input, pending, unit, list, num, calls, call, pre, ret, sweep>>

\* The iterator is exhausted: fill returns.
fill_return ==
    /\ pc = "fill"
    /\ NextPresent(input, fillPos) = Taken(input)
    /\ fillPos' = Taken(input)
    /\ pc' = "idle"
    /\ assigned' = <<>>
    /\ UNCHANGED <<board, failure, input, pending, unit, list, num, calls, call, pre, ret, sweep>>

----------------------------------------------------------------------------
(* solve *)

\* solve_sole_option: the cells collected before any of them is assigned.
sole_options(d) ==
    LET idxs == SelectSeq([k \in 1..Cells |-> k - 1],
                          LAMBDA idx : IsOptions(d[idx]) /\ Len(d[idx].opts) = 1)
    IN  [k \in 1..Len(idxs) |-> <<idxs[k], d[idxs[k]].opts[1]>>]

\* The positions solve() hands to solve_by_neighbourhood: rows, columns,
\* then squares.
positions(u) ==
    IF u < 9 THEN [c \in 1..9 |-> u * 9 + (c - 1)]
    ELSE IF u < 18 THEN [r \in 1..9 |-> (r - 1) * 9 + (u - 9)]
    ELSE LET square_base_row == 3 * ((u - 18) \div 3)
             square_base_col == 3 * ((u - 18) % 3)
         IN  [k \in 1..9 |-> (square_base_row + ((k - 1) \div 3)) * 9
                             + square_base_col + ((k - 1) % 3)]

\* The first loop without the test for the Options variant: a decided cell
\* counts as a position of its digit.
collect_decided_too(d, ps) ==
    [n \in 1..9 |->
        SelectSeq(ps, LAMBDA idx : HasOption(d[idx], n) \/ d[idx] = Value(n))]

\* solve_by_neighbourhood's first loop: per digit, the positions whose
\* candidates contain it, in the order of the positions.
collect(d, ps) ==
    [n \in 1..9 |-> SelectSeq(ps, LAMBDA idx : HasOption(d[idx], n))]

\* sole_row left true whatever the rows of the positions.
sole_row_always(e) == TRUE

sole_row(e) == \A k \in 2..Len(e) : e[k] \div 9 = e[1] \div 9
sole_col(e) == \A k \in 2..Len(e) : e[k] % 9 = e[1] % 9

\* The filter on e left out: the listed cells lose n as well.
restrict_listed_too(d, idxs, e, n) ==
    [i \in DOMAIN d |-> IF i \in idxs THEN remove_option(d[i], n) ELSE d[i]]

\* remove_option(n) on the cells of idxs that are not in e.
restrict(d, idxs, e, n) ==
    [i \in DOMAIN d |->
        IF i \in idxs /\ ~Contains(e, i) THEN remove_option(d[i], n) ELSE d[i]]

\* The arm of the match for two or more positions.
line_restriction(d, e, n) ==
    LET row == e[1] \div 9
        col == e[1] % 9
        d1 == IF sole_row(e)
              THEN restrict(d, {row * 9 + c : c \in 0..8}, e, n) ELSE d
    IN  IF sole_col(e)
        THEN restrict(d1, {r * 9 + col : r \in 0..8}, e, n) ELSE d1

solve ==
    /\ Count("solve") < MaxSolves
    /\ Enter("solve", <<>>, None)
    /\ pc' = "loop"
    /\ sweep' = [n |-> 0, data |-> data]
    /\ assigned' = <<>>
    /\ UNCHANGED <<board, failure, local>>

\* Top of the loop: the flag is reset and the sole options are collected.
sweep_begin ==
    /\ pc = "loop"
    /\ changed' = FALSE
    /\ pending' = sole_options(data)
    /\ pc' = IF pending' = <<>> THEN "collect" ELSE "sole"
    /\ unit' = 0
    /\ sweep' = [n |-> IF sweep.n < MaxSweeps THEN sweep.n + 1 ELSE sweep.n,
                 data |-> data]
    /\ assigned' = <<>>
    /\ UNCHANGED <<data, steps, failure, input, fillPos, list, num, calls, call, pre, ret>>

\* The pass collecting again after every assignment instead of once.
sole_apply_recollect ==
    /\ pc = "sole"
    /\ set_idx(Head(pending)[1], Head(pending)[2])
    /\ pending' = sole_options(data')
    /\ pc' = IF failure' # "none" THEN "panic"
             ELSE IF pending' = <<>> THEN "collect" ELSE "sole"
    /\ UNCHANGED <<input, fillPos, unit, list, num, calls, call, pre, ret, sweep>>

sole_apply ==
    /\ pc = "sole"
    /\ set_idx(Head(pending)[1], Head(pending)[2])
    /\ pending' = Tail(pending)
    /\ pc' = IF failure' # "none" THEN "panic"
             ELSE IF pending' = <<>> THEN "collect" ELSE "sole"
    /\ UNCHANGED <<input, fillPos, unit, list, num, calls, call, pre, ret, sweep>>

unit_collect ==
    /\ pc = "collect"
    /\ list' = collect(data, positions(unit))
    /\ num' = 0
    /\ pc' = "digit"
    /\ assigned' = <<>>
    /\ UNCHANGED <<board, failure, input, fillPos, pending, unit, calls, call, pre, ret, sweep>>

\* After one turn of the loop over list: the next digit, the next unit, or
\* the end of the sweep.
Advance ==
    /\ num' = IF num < 8 THEN num + 1 ELSE 0
    /\ unit' = IF num < 8 THEN unit ELSE IF unit < 26 THEN unit + 1 ELSE 0
    /\ pc' = IF failure' # "none" THEN "panic"
             ELSE IF num < 8 THEN "digit"
             ELSE IF unit < 26 THEN "collect" ELSE "check"
    /\ UNCHANGED <<input, fillPos, pending, list, calls, call, pre, ret, sweep>>

digit_none ==
    /\ pc = "digit"
    /\ Len(list[num + 1]) = 0
    /\ assigned' = <<>>
    /\ UNCHANGED <<board, failure>>
    /\ Advance

digit_single ==
    /\ pc = "digit"
    /\ Len(list[num + 1]) = 1
    /\ set_idx(list[num + 1][1], num + 1)
    /\ Advance

digit_many ==
    /\ pc = "digit"
    /\ Len(list[num + 1]) > 1
    /\ data' = line_restriction(data, list[num + 1], num + 1)
    /\ assigned' = <<>>
    /\ UNCHANGED <<changed, steps, failure>>
    /\ Advance

\* The break taken on the wrong value of the flag.
sweep_end_inverted ==
    /\ pc = "check"
    /\ pc' = IF changed THEN "idle" ELSE "loop"
    /\ assigned' = <<>>
    /\ UNCHANGED <<board, failure, local, calls, call, pre, ret, sweep>>

\* Bottom of the loop.
sweep_end ==
    /\ pc = "check"
    /\ pc' = IF changed THEN "loop" ELSE "idle"
    /\ assigned' = <<>>
    /\ UNCHANGED <<board, failure, local, calls, call, pre, ret, sweep>>

----------------------------------------------------------------------------

Next ==
    \/ \E s \in Inputs : fill(s)
    \/ fill_item
    \/ fill_return
    \/ \E pos \in SetPositions, val \in SetValues : set(pos, val)
    \/ \E enable \in BOOLEAN : record_steps(enable)
    \/ solve
    \/ sweep_begin
    \/ sole_apply
    \/ unit_collect
    \/ digit_none
    \/ digit_single
    \/ digit_many
    \/ sweep_end

Spec == Init /\ [][Next]_vars

----------------------------------------------------------------------------
(* Fairness: solve() is a loop of a single thread, so once it is called its
   steps are taken one after the other until it returns. *)

solve_step ==
    \/ sweep_begin
    \/ sole_apply
    \/ unit_collect
    \/ digit_none
    \/ digit_single
    \/ digit_many
    \/ sweep_end

\* The caller of main(): a board is made, filled and solved, and nothing else.
FillSolveNext ==
    \/ \E s \in Inputs : fill(s)
    \/ fill_item
    \/ fill_return
    \/ solve
    \/ solve_step

\* Board::neighbours called on its own, on every position of the grid.
neighbours_call(pos) ==
    /\ pc = "idle"
    /\ call' = [op |-> "neighbours", pos |-> pos, val |-> None, after |-> call.op]
    /\ ret' = neighbours(pos)
    /\ UNCHANGED <<board, pc, failure, local, calls, pre, assigned, sweep>>

NeighboursNext == \E row \in 0..8, col \in 0..8 : neighbours_call(<<row, col>>)

NeighboursSpec == Init /\ [][NeighboursNext]_vars

FillSolveSpec == Init /\ [][FillSolveNext]_vars /\ WF_vars(solve_step)

\* The calls that assign: fill, set and solve in any order, without the
\* toggling of the step list.
AssignNext ==
    \/ \E s \in Inputs : fill(s)
    \/ fill_item
    \/ fill_return
    \/ \E pos \in SetPositions, val \in SetValues : set(pos, val)
    \/ solve
    \/ solve_step

AssignSpec == Init /\ [][AssignNext]_vars

----------------------------------------------------------------------------
(* Vocabulary of the properties *)

Idx == 0..(Cells - 1)
RowOf(i) == i \div 9
ColOf(i) == i % 9
SquareOf(i) == 3 * (RowOf(i) \div 3) + (ColOf(i) \div 3)

\* i and j are different cells of one row, one column or one 3x3 square.
Peer(i, j) ==
    /\ i # j
    /\ \/ RowOf(i) = RowOf(j)
       \/ ColOf(i) = ColOf(j)
       \/ SquareOf(i) = SquareOf(j)

OptSet(f) == {f.opts[k] : k \in 1..Len(f.opts)}

\* solve() is running / has just returned, on a board that new() and fill()
\* made (no call of set).
FilledOnly == calls.fill = 1 /\ calls.set = 0
InSolve == call.op = "solve" /\ pc \notin {"idle", "panic"}
SolveReturned == call.op = "solve" /\ pc = "idle"

----------------------------------------------------------------------------
(* C1: idempotence of solve(): when solve() is called directly after a solve()
   on a board made by new() and fill(), it returns with every cell (value or
   candidate set) as it found it. *)
C1_SolveIdempotent ==
    (FilledOnly /\ SolveReturned /\ call.after = "solve") => data = pre.data

----------------------------------------------------------------------------
(* C3: a Value cell never changes: on a board made by new() and fill(), no
   step of solve() changes a cell that holds a Value. *)
C3_ValueNeverChanges ==
    [][(FilledOnly /\ InSolve) =>
          \A i \in Idx : IsValue(data[i]) => data'[i] = data[i]]_vars

----------------------------------------------------------------------------
(* C2: termination of solve(): every call of solve(), whatever clues new() and
   fill() put on the board and whatever the caller did before, returns; it
   does not end in a failure. *)
C2_SolveTerminates ==
    /\ [](call.op = "solve" => failure = "none")
    /\ (call.op = "solve" /\ pc # "idle") ~> (call.op = "solve" /\ pc = "idle")

\* solve() has returned on the under-constrained puzzle of test
\* solve_by_neighbourhood (3 rows of clues, 6 empty rows) with cells still
\* undecided.
C2_Witness ==
    /\ SolveReturned /\ FilledOnly
    /\ input = ByNeighbourhood
    /\ \E i \in Idx : IsOptions(data[i])

----------------------------------------------------------------------------
(* C4: cell state is monotone: every cell starts as Options({1..9}); in every
   step of fill, set and solve a candidate set gains no digit and a Value cell
   stays a Value cell; remove_option leaves a Value cell as it is. *)
C4_CellMonotone ==
    /\ \A i \in Idx : data[i] = with_all_options
    /\ [][\A i \in Idx :
            data'[i] # data[i] =>
                /\ IsValue(data[i]) => IsValue(data'[i])
                /\ (IsOptions(data[i]) /\ IsOptions(data'[i]))
                      => OptSet(data'[i]) \subseteq OptSet(data[i])
                /\ IsValue(data'[i])
                      => \A v \in 0..10 : remove_option(data'[i], v) = data'[i]]_vars

\* During solve(), after a set and a fill: an assignment next to a decided cell
\* (remove_option ran on a Value cell) and next to a shrunken candidate set.
C4_Witness ==
    /\ call.op = "solve" /\ calls.set = 1 /\ calls.fill = 1
    /\ assigned # <<>>
    /\ \E j \in Idx : Peer(assigned[1], j) /\ IsValue(data[j])
    /\ \E j \in Idx : /\ Peer(assigned[1], j)
                      /\ IsOptions(data[j])
                      /\ Len(data[j].opts) < Len(pre.data[j].opts)

----------------------------------------------------------------------------
(* C5: propagation atomicity: in the state a set_idx(index, v) leaves (called
   by set, by fill or by a rule of solve), the cell at index is Value(v) and
   none of the 20 other cells of its row, column and square has v as a
   candidate. *)
C5_PropagationAtomic ==
    assigned # <<>> =>
        LET index == assigned[1]
            v == assigned[2]
        IN  /\ data[index] = Value(v)
            /\ Cardinality({j \in Idx : Peer(index, j)}) = 20
            /\ \A j \in Idx : Peer(index, j) => ~HasOption(data[j], v)

\* An assignment by a rule of solve() that took v from a cell of the same
\* square lying in another row and column.
C5_Witness ==
    /\ InSolve
    /\ assigned # <<>>
    /\ \E j \in Idx :
          /\ SquareOf(j) = SquareOf(assigned[1])
          /\ RowOf(j) # RowOf(assigned[1])
          /\ ColOf(j) # ColOf(assigned[1])
          /\ HasOption(pre.data[j], assigned[2])
          /\ IsOptions(data[j])

----------------------------------------------------------------------------
(* C6: neighbour completeness: for every position (row, col) of the grid,
   neighbours((row, col)) has exactly 20 members, no member twice, not the
   position itself, and its members are exactly the other cells of the same
   row, the same column and the same 3x3 square. *)
C6_NeighboursComplete ==
    call.op = "neighbours" =>
        LET row == call.pos[1]
            col == call.pos[2]
        IN  /\ Len(ret) = 20
            /\ \A k, l \in 1..Len(ret) : k # l => ret[k] # ret[l]
            /\ \A k \in 1..Len(ret) : ret[k] # <<row, col>>
            /\ {ret[k] : k \in 1..Len(ret)} =
                  {p \in (0..8) \X (0..8) :
                      /\ p # <<row, col>>
                      /\ \/ p[1] = row
                         \/ p[2] = col
                         \/ (p[1] \div 3 = row \div 3 /\ p[2] \div 3 = col \div 3)}

\* neighbours((6, 2)) has returned the 20 positions of the test neighbours_6_2,
\* in its order.
C6_Witness ==
    /\ call.op = "neighbours"
    /\ call.pos = <<6, 2>>
    /\ ret = << <<6, 0>>, <<6, 1>>, <<6, 3>>, <<6, 4>>, <<6, 5>>, <<6, 6>>, <<6, 7>>, <<6, 8>>,
               <<0, 2>>, <<1, 2>>, <<2, 2>>, <<3, 2>>, <<4, 2>>, <<5, 2>>, <<7, 2>>, <<8, 2>>,
               <<7, 0>>, <<7, 1>>, <<8, 0>>, <<8, 1>> >>

----------------------------------------------------------------------------
(* Clue sequences as the properties read them *)

\* The i-th item (counted from 0) exists, is among the first 81 and is Some.
Present(s, i) == i < Len(s) /\ i < Cells /\ s[i + 1] # None

Digit(v) == v \in 1..9

\* Some present item among the first 81 is outside 1..9.
HasInvalid(s) == \E i \in Idx : Present(s, i) /\ ~Digit(s[i + 1])
FirstInvalid(s) ==
    CHOOSE i \in Idx :
        /\ Present(s, i) /\ ~Digit(s[i + 1])
        /\ \A j \in 0..(i - 1) : Present(s, j) => Digit(s[j + 1])

\* Every row, column and square of the grid g holds each digit once.
ValidGrid(g) ==
    /\ Len(g) = Cells
    /\ \A i \in Idx : g[i + 1] \in 1..9
    /\ \A i, j \in Idx : Peer(i, j) => g[i + 1] # g[j + 1]

\* The complete valid grids the clue sequences are compared with.
KnownGrids ==
    {g \in {HardSolution, NormalSolution, ByNeighbourhoodSolution,
            PointingSolution} : ValidGrid(g)}

\* The clues of s agree with some complete valid grid.
Solvable(s) ==
    \E g \in KnownGrids : \A i \in Idx : Present(s, i) => s[i + 1] = g[i + 1]

----------------------------------------------------------------------------
(* C7: fill() on a new board maps clues to cells one to one in row-major order
   and deduces nothing: when it returns, cell i is Value(v) exactly when the
   i-th item exists and is Some(v), and is undecided otherwise; items from the
   82nd on are ignored, so a sequence whose first 81 items are absent or in
   1..9 never fails. *)
C7_FillMapsClues ==
    call.op = "fill" =>
        /\ pc = "idle" =>
              \A i \in Idx :
                  IF Present(input, i)
                  THEN data[i] = Value(input[i + 1])
                  ELSE IsOptions(data[i])
        /\ ~HasInvalid(input) => failure = "none"

\* fill() has returned on the puzzle of solve_hard: cell 4 is left undecided
\* with 4 as its only candidate.
C7_Witness ==
    /\ call.op = "fill" /\ pc = "idle"
    /\ input = Hard
    /\ data[0] = Value(9)
    /\ data[4] = Options(<<4>>)

----------------------------------------------------------------------------
(* C8 as stated: fill() treats a present value outside 1..9 as no clue: it
   does not fail, and returns with exactly the valid present items assigned. *)
C8_FillSkipsInvalid ==
    call.op = "fill" =>
        /\ failure = "none"
        /\ pc = "idle" =>
              \A i \in Idx :
                  IF Present(input, i) /\ Digit(input[i + 1])
                  THEN data[i] = Value(input[i + 1])
                  ELSE IsOptions(data[i])

(* C8 as amended: fill() hands a present value outside 1..9 to set_idx, whose
   assertion fails: fill() never returns; when it has failed, the failure is
   the invalid-value one, the valid items before the first invalid one are
   assigned, and the cell of the invalid item and the cells of all later
   items are undecided. *)
C8_FillFailsOnInvalid ==
    (call.op = "fill" /\ HasInvalid(input)) =>
        /\ pc # "idle"
        /\ pc = "panic" =>
              LET k == FirstInvalid(input)
              IN  /\ failure = "InvalidValue"
                  /\ \A i \in Idx :
                        IF i < k /\ Present(input, i)
                        THEN data[i] = Value(input[i + 1])
                        ELSE IsOptions(data[i])

\* fill(<<Some(3), None, Some(0), Some(7)>>) has failed at its third item.
C8_Witness ==
    /\ call.op = "fill" /\ pc = "panic"
    /\ input = WithZero
    /\ data[0] = Value(3)
    /\ IsOptions(data[2]) /\ IsOptions(data[3])

----------------------------------------------------------------------------
(* C9 as stated: set with a value outside 1..9 always ends in the
   invalid-value failure, with the cells, the steps and the flag as the call
   found them. *)
C9_InvalidValueFails ==
    (call.op = "set" /\ ~Digit(call.val)) =>
        /\ pc = "panic"
        /\ failure = "InvalidValue"
        /\ Snapshot = pre

(* C9 as amended: set with a value outside 1..9 always fails before anything
   is modified; the failure is the invalid-value one when the index
   row * 9 + col is within 0..80, and the out-of-bounds one of data[idx]
   otherwise.  No failing step, of set or of fill, modifies the cells, the
   steps or the flag. *)
C9_InvalidValueFailsInRange ==
    /\ [][(failure = "none" /\ failure' # "none") => UNCHANGED board]_vars
    /\ []((call.op = "set" /\ ~Digit(call.val)) =>
            /\ pc = "panic"
            /\ failure = IF call.pos[1] * 9 + call.pos[2] \in Idx
                         THEN "InvalidValue" ELSE "IndexOutOfBounds"
            /\ Snapshot = pre)

\* set((0, 0), 10) has failed on a board that fill() and solve() had worked
\* on.
C9_Witness ==
    /\ call = [op |-> "set", pos |-> <<0, 0>>, val |-> 10, after |-> "solve"]
    /\ failure = "InvalidValue"
    /\ calls.fill = 1
    /\ \E i \in Idx : IsValue(data[i])
    /\ Snapshot = pre

----------------------------------------------------------------------------
(* C10: step recording: when solve() starts with a fresh empty step list on a
   board made by new() and fill() from clues that agree with a valid grid,
   then on return the steps are exactly the cells that were undecided before
   and are decided now, one step each, and replaying the steps in order with
   set_idx on the board as solve() found it gives the final board's Value at
   every cell. *)
\* (The test of DOMAIN d makes TLC evaluate each board before the next step
\* is replayed on it.)
RECURSIVE Replay(_, _)
Replay(d, ss) ==
    IF ss = <<>> \/ DOMAIN d = {} THEN d
    ELSE Replay(set_idx_data(d, Head(ss)[1], Head(ss)[2]), Tail(ss))

C10_StepsReplay ==
    (SolveReturned /\ FilledOnly /\ Solvable(input) /\ pre.steps = SomeSteps(<<>>)) =>
        LET resolved == {i \in Idx : IsOptions(pre.data[i]) /\ IsValue(data[i])}
            replayed == Replay(pre.data, steps.list)
        IN  /\ steps.on
            /\ Len(steps.list) = Cardinality(resolved)
            /\ {steps.list[k][1] : k \in 1..Len(steps.list)} = resolved
            /\ \A i \in Idx :
                  /\ IsValue(replayed[i]) <=> IsValue(data[i])
                  /\ IsValue(data[i]) => replayed[i] = data[i]

\* solve() has decided the 49 open cells of the puzzle of solve_hard in 49
\* recorded steps.
C10_Witness ==
    /\ SolveReturned /\ FilledOnly
    /\ input = Hard
    /\ pre.steps = SomeSteps(<<>>)
    /\ Len(steps.list) = 49
    /\ \A i \in Idx : IsValue(data[i])

----------------------------------------------------------------------------
(* C11: round trip on a full grid: when the items fill() takes are 81 present
   digits of 1..9, fill() returns with every cell holding the digit given for
   its position, and a solve() on that board changes no cell and appends no
   step, runs one sweep and returns with the flag false. *)
FullGrid(s) == Len(s) >= Cells /\ \A i \in Idx : s[i + 1] # None /\ Digit(s[i + 1])

C11_FullGridRoundTrip ==
    (calls.fill = 1 /\ calls.set = 0 /\ FullGrid(input)) =>
        /\ (call.op = "fill" /\ pc = "idle") =>
              \A i \in Idx : data[i] = Value(input[i + 1])
        /\ call.op = "solve" =>
              /\ data = pre.data
              /\ steps = pre.steps
              /\ sweep.n <= 1
              /\ pc = "idle" => (sweep.n = 1 /\ changed = FALSE)

\* solve() has returned on the grid of 81 fives, with the 81 steps that
\* fill() recorded.
C11_Witness ==
    /\ SolveReturned /\ FilledOnly
    /\ input = FullOfFives
    /\ sweep.n = 1
    /\ steps.on /\ Len(steps.list) = Cells
    /\ \A i \in Idx : data[i] = Value(5)

----------------------------------------------------------------------------
(* C12: the scenario of test solve_hard: fill() of the puzzle
   92....... / 5..87.... / .38.91... / .5293.16. / .9.....3. / .73.6498. /
   ...41.25. / ....53..1 / .......73 followed by solve() ends with all 81
   cells decided, and the grid read row-major is
   926345718541872396738691425852937164694128537173564982387416259269753841415289673. *)
C12_SolveHard ==
    (SolveReturned /\ FilledOnly /\ input = Hard) =>
        \A i \in Idx : data[i] = Value(HardSolution[i + 1])

\* solve(), called directly after fill() of the puzzle, has returned with the
\* last row 4 1 5 2 8 9 6 7 3.
C12_Witness ==
    /\ SolveReturned /\ FilledOnly
    /\ input = Hard
    /\ call.after = "fill"
    /\ [k \in 1..9 |-> data[71 + k]]
          = [k \in 1..9 |-> Value(<<4, 1, 5, 2, 8, 9, 6, 7, 3>>[k])]

----------------------------------------------------------------------------
(* C13: the changed flag: it is false from the top of a sweep for as long as
   the sweep has changed no cell, and at the end of the sweep it is true
   exactly when the sweep has assigned a cell or removed a candidate, the
   removals of the line restriction included. *)
C13_ChangedTracksSweep ==
    (call.op = "solve" /\ pc \in {"sole", "collect", "digit", "check"}) =>
        /\ data = sweep.data => changed = FALSE
        /\ pc = "check" => (changed <=> data # sweep.data)

----------------------------------------------------------------------------
(* C14: collect-then-apply in the sole-option pass: the pass assigns exactly
   the cells that were undecided with exactly one candidate at the top of the
   sweep, each to that candidate, in ascending index order, one cell per step
   and nothing else; a cell left with one candidate by an assignment of the
   pass is not assigned by it. *)
SoleAt(d) == {i \in Idx : IsOptions(d[i]) /\ Len(d[i].opts) = 1}

\* The cells of the pass not assigned yet.
SoleRemaining == {i \in SoleAt(sweep.data) : IsOptions(data[i])}

C14_SoleCollectThenApply ==
    [][call.op = "solve" =>
        /\ pc = "loop" => (pc' = "sole" <=> SoleAt(data) # {})
        /\ pc = "sole" =>
              LET i == CHOOSE m \in SoleRemaining : \A k \in SoleRemaining : m <= k
                  v == sweep.data[i].opts[1]
              IN  /\ SoleRemaining # {}
                  /\ assigned' = <<i, v>>
                  /\ data'[i] = Value(v)
                  /\ \A j \in Idx \ {i} : IsValue(data'[j]) <=> IsValue(data[j])
                  /\ pc' = IF SoleRemaining = {i} THEN "collect" ELSE "sole"]_vars

\* The pass has ended (its last assignment was the latest step) leaving
\* undecided a cell that had several candidates at the top of the sweep and
\* has one now.
C14_Witness ==
    /\ call.op = "solve" /\ pc = "collect" /\ unit = 0
    /\ assigned # <<>>
    /\ \E j \in Idx :
          /\ IsOptions(sweep.data[j]) /\ Len(sweep.data[j].opts) > 1
          /\ IsOptions(data[j]) /\ Len(data[j].opts) = 1

----------------------------------------------------------------------------
(* C15: unit-scoped single placement: when digit d of a unit is examined, the
   positions considered for it are the cells of the unit whose candidates
   contain d at that moment, so that a digit examined after an assignment made
   earlier in the same unit is judged on the updated candidates. *)
\* The cells of unit u: row u, column u - 9 or square u - 18.
UnitCells(u) ==
    IF u < 9 THEN {9 * u + c : c \in 0..8}
    ELSE IF u < 18 THEN {9 * r + (u - 9) : r \in 0..8}
    ELSE {9 * (3 * ((u - 18) \div 3) + a) + 3 * ((u - 18) % 3) + b :
             a \in 0..2, b \in 0..2}

C15_DigitJudgedOnCurrent ==
    (call.op = "solve" /\ pc = "digit") =>
        LET d == num + 1
        IN  {list[d][k] : k \in 1..Len(list[d])}
                = {i \in UnitCells(unit) : HasOption(data[i], d)}

----------------------------------------------------------------------------
(* C16: line restriction: when digit d of a unit is examined and is a
   candidate at two or more cells of the unit, then, if all those cells lie in
   one row, after the step no other cell of that row has d as a candidate, and
   the same for one column; those cells keep d, no cell outside that row or
   column loses a candidate, and when the cells share neither a row nor a
   column nothing is removed. *)
Holders(d) == {i \in UnitCells(unit) : HasOption(data[i], d)}

C16_LineRestriction ==
    [][(call.op = "solve" /\ pc = "digit" /\ Cardinality(Holders(num + 1)) >= 2) =>
        LET d == num + 1
            P == Holders(d)
            oneRow == \E r \in 0..8 : \A i \in P : RowOf(i) = r
            oneCol == \E c \in 0..8 : \A i \in P : ColOf(i) = c
            line == {j \in Idx \ P :
                        \/ oneRow /\ \E i \in P : RowOf(j) = RowOf(i)
                        \/ oneCol /\ \E i \in P : ColOf(j) = ColOf(i)}
        IN  /\ \A j \in line : ~HasOption(data'[j], d)
            /\ \A j \in line : data'[j] = remove_option(data[j], d)
            /\ \A j \in Idx \ line : data'[j] = data[j]]_vars

----------------------------------------------------------------------------
(* C17: step-history toggling is not cumulative: a new board has no step
   list; record_steps(true) installs an empty list whatever was recorded
   before, record_steps(false) leaves no list; neither changes a cell or the
   changed flag; and while there is no list, no step of the program creates
   one or adds a step. *)
C17_RecordStepsFresh ==
    /\ steps = [on |-> FALSE, list |-> <<>>]
    /\ [][LET recording == call' # call /\ call'.op = "record_steps"
          IN  /\ recording =>
                    /\ steps' = IF call'.val = 1
                                 THEN [on |-> TRUE, list |-> <<>>]
                                 ELSE [on |-> FALSE, list |-> <<>>]
                    /\ data' = data
                    /\ changed' = changed
              /\ (~steps.on /\ ~recording) => steps' = steps]_vars

\* record_steps(true) has replaced a list of recorded steps by an empty one,
\* on a board with decided cells.
C17_Witness ==
    /\ call.op = "record_steps" /\ call.val = 1
    /\ pre.steps.on /\ Len(pre.steps.list) > 0
    /\ steps.on /\ steps.list = <<>>
    /\ \E i \in Idx : IsValue(data[i])
    /\ data = pre.data /\ changed = pre.changed

----------------------------------------------------------------------------
(* C18: soundness of deduction: when the clues given to fill() agree with a
   complete valid grid S, then in every state of solve() each decided cell i
   holds S[i] and each undecided cell i has S[i] among its candidates; so
   solve() does not fail, empties no candidate set and places no digit twice
   in a row, column or square. *)
Solutions(s) ==
    {g \in KnownGrids : \A i \in Idx : Present(s, i) => s[i + 1] = g[i + 1]}

\* The 27 rows, columns and squares, as sets of cells.
Units == {UnitCells(u) : u \in 0..26}

C18_DeductionSound ==
    (FilledOnly /\ call.op = "solve" /\ Solutions(input) # {}) =>
        /\ \A S \in Solutions(input) : \A i \in Idx :
              IF IsValue(data[i]) THEN data[i].val = S[i + 1]
              ELSE HasOption(data[i], S[i + 1])
        /\ failure = "none"
        /\ \A i \in Idx : IsOptions(data[i]) => data[i].opts # <<>>
        /\ \A U \in Units : \A i, j \in U :
              (i # j /\ IsValue(data[i]) /\ IsValue(data[j]))
                  => data[i].val # data[j].val

\* solve() has returned on the puzzle of test solve_normal with the grid the
\* test expects.
C18_Witness ==
    /\ SolveReturned /\ FilledOnly
    /\ input = Normal
    /\ Solutions(input) = {NormalSolution}
    /\ \A i \in Idx : data[i] = Value(NormalSolution[i + 1])

----------------------------------------------------------------------------
(* C19: neighbour exclusion: in every state reached from Board::new() by
   calls of fill, set, solve and record_steps, whatever the clues (also
   contradictory ones), no undecided cell has among its candidates the value
   of a decided cell of its row, column or square. *)
Peers == [i \in Idx |-> {j \in Idx : Peer(i, j)}]

\* The 20 neighbours of a cell are the other cells of the three units it lies
\* in, so the property is stated unit by unit.
C19_NeighbourExclusion ==
    \A u \in 0..26 :
        LET U == UnitCells(u)
            decided == {data[i].val : i \in {c \in U : IsValue(data[c])}}
        IN  \A j \in U :
                IsOptions(data[j]) => OptSet(data[j]) \cap decided = {}

\* solve() has returned on the contradictory clues of TwoInOne after a call
\* of set, with cell 0 decided twice and undecided cells in its row.
C19_Witness ==
    /\ SolveReturned
    /\ input = TwoInOne
    /\ calls.set = 1 /\ calls.fill = 1
    /\ data[0] = Value(2)
    /\ \E j \in Peers[0] : IsOptions(data[j])

====
